---------------------------- MODULE Spec2Model ----------------------------
(***************************************************************************)
(* Verification model of the rocket-sim 6DOF flight engine: the state      *)
(* derivative (dynamics/sixdof.rs), the RK4 integrator (sim/integrator.rs),*)
(* the staging machine and the outer loop (sim/runner.rs) and the default  *)
(* controller (gnc_mod).                                                   *)
(*                                                                         *)
(* The program computes in f64.  The model computes in integer fixed       *)
(* point, every quantity in a unit small enough for the thresholds of the  *)
(* code to be integers:                                                    *)
(*   time, dt, max_time   ms          pos     cm        vel     cm/s       *)
(*   acceleration         cm/s^2      mass    g         dmass   g/s        *)
(*   force                mN          torque  mN*cm     inertia 0.01 kg*m^2*)
(*   angle                mrad        omega   mrad/s    domega  mrad/s^2   *)
(*   quaternion component 1/1000      density g/m^3     isp     s          *)
(* so 0.01 kg is 10, 1 m is 100, 5 m/s is 500.  A quotient is truncated    *)
(* toward zero (Div); sin, cos, asin and atan2 are fixed-point             *)
(* approximations.                                                         *)
(*                                                                         *)
(* A quotient by a mass of exactly 0 is infinite or NaN in f64.  The model *)
(* follows the step in which that happens for time, mass and stage index,  *)
(* which do not depend on it (StepNonFinite), and no further.              *)
(***************************************************************************)
EXTENDS Integers, Sequences, FiniteSets, TLC

\* ------------------------------------------------------------------------
\* Fixed-point arithmetic
\* ------------------------------------------------------------------------

Abs(a) == IF a < 0 THEN -a ELSE a

\* a / b of the code, truncated toward zero (b # 0).
Div(a, b) ==
    IF (a >= 0) = (b > 0) THEN Abs(a) \div Abs(b) ELSE -(Abs(a) \div Abs(b))

Max(a, b) == IF a >= b THEN a ELSE b

Min(a, b) == IF a <= b THEN a ELSE b

\* f64::clamp(lo, hi)
Clamp(a, lo, hi) == IF a < lo THEN lo ELSE IF a > hi THEN hi ELSE a

RECURSIVE IsqrtIn(_, _, _)
IsqrtIn(n, lo, hi) ==
    IF lo >= hi THEN lo
    ELSE LET mid == (lo + hi + 1) \div 2
         IN  IF mid * mid <= n THEN IsqrtIn(n, mid, hi) ELSE IsqrtIn(n, lo, mid - 1)

\* floor(sqrt(n)), n < 2^31
Isqrt(n) == IsqrtIn(n, 0, 46340)

\* sin of a small angle (mrad), result in 1/1000: x - x^3/6
SinMilli(x) == x - Div(Div(x * x, 1000) * x, 6000)

\* cos of a small angle (mrad), result in 1/1000: 1 - x^2/2
CosMilli(x) == 1000 - Div(x * x, 2000)

\* atan of a ratio r in [0, 1000] (1/1000), result in mrad:
\* (pi/4) r + 0.273 r (1 - r)
AtanUnit(r) == Div(785 * r, 1000) + Div(273 * Div(r * (1000 - r), 1000), 1000)

\* atan2 for x >= 0, y >= 0 (first quadrant), mrad
AtanQ1(y, x) ==
    IF x = 0 /\ y = 0 THEN 0
    ELSE IF y <= x THEN AtanUnit(Div(y * 1000, x))
    ELSE 1571 - AtanUnit(Div(x * 1000, y))

\* f64::atan2(y, x), mrad; |x|, |y| < 2 000 000
Atan2(y, x) ==
    IF x >= 0 THEN (IF y >= 0 THEN AtanQ1(y, x) ELSE -AtanQ1(-y, x))
    ELSE (IF y >= 0 THEN 3142 - AtanQ1(y, -x) ELSE -(3142 - AtanQ1(-y, -x)))

\* f64::asin(s), s in 1/1000 within [-1000, 1000], mrad
Asin(s) == Atan2(s, Isqrt(Max(0, 1000000 - s * s)))

\* ------------------------------------------------------------------------
\* Vector3 and Quaternion (nalgebra), as tuples
\* ------------------------------------------------------------------------

V3(x, y, z) == <<x, y, z>>

VZero == <<0, 0, 0>>

VAdd(a, b) == <<a[1] + b[1], a[2] + b[2], a[3] + b[3]>>

VScale(a, k) == <<a[1] * k, a[2] * k, a[3] * k>>

VDiv(a, k) == <<Div(a[1], k), Div(a[2], k), Div(a[3], k)>>

VCross(a, b) ==
    <<a[2] * b[3] - a[3] * b[2], a[3] * b[1] - a[1] * b[3], a[1] * b[2] - a[2] * b[1]>>

VNorm(a) == Isqrt(a[1] * a[1] + a[2] * a[2] + a[3] * a[3])

QIdentity == <<1000, 0, 0, 0>>

\* Hamilton product p * q of two quaternions <<w, i, j, k>>, unscaled
QMul(p, q) ==
    << p[1] * q[1] - p[2] * q[2] - p[3] * q[3] - p[4] * q[4],
       p[1] * q[2] + p[2] * q[1] + p[3] * q[4] - p[4] * q[3],
       p[1] * q[3] - p[2] * q[4] + p[3] * q[1] + p[4] * q[2],
       p[1] * q[4] + p[2] * q[3] - p[3] * q[2] + p[4] * q[1] >>

QNorm(q) == Isqrt(q[1] * q[1] + q[2] * q[2] + q[3] * q[3] + q[4] * q[4])

\* UnitQuaternion::new_normalize
QNormalize(q) ==
    LET n == QNorm(q)
    IN  IF n = 0 THEN q
        ELSE <<Div(q[1] * 1000, n), Div(q[2] * 1000, n), Div(q[3] * 1000, n), Div(q[4] * 1000, n)>>

\* UnitQuaternion::inverse (the conjugate)
QInverse(q) == <<q[1], -q[2], -q[3], -q[4]>>

\* UnitQuaternion * Vector3: v + w t + u x t, t = 2 (u x v)
QRotate(q, v) ==
    LET u == <<q[2], q[3], q[4]>>
        t == VDiv(VScale(VCross(u, v), 2), 1000)
    IN  VAdd(v, VAdd(VDiv(VScale(t, q[1]), 1000), VDiv(VCross(u, t), 1000)))


\* ------------------------------------------------------------------------
\* Physical constants (dynamics/state.rs)
\* ------------------------------------------------------------------------

\* G0 = 9.80665 m/s^2, in cm/s^2
G0 == 981

\* EARTH_RADIUS = 6 371 000 m, in units of 100 m
EARTH_RADIUS == 63710

\* ------------------------------------------------------------------------
\* Stage and Mission (vehicle/stage.rs, vehicle/mission.rs)
\* ------------------------------------------------------------------------

\* Stage::mass_flow: thrust / (isp * G0), g/s
mass_flow(stage) == Div(stage.thrust * 100, stage.isp * G0)

\* Stage::total_mass
total_mass(stage) == stage.dry_mass + stage.propellant_mass

RECURSIVE SumTotalMass(_, _)
\* sum of total_mass over stages[from ..] (1-based positions)
SumTotalMass(stages, from) ==
    IF from > Len(stages) THEN 0
    ELSE total_mass(stages[from]) + SumTotalMass(stages, from + 1)

\* Mission::total_mass
mission_total_mass(mission) == SumTotalMass(mission.stages, 1)

\* Mission::active_stage: stages.get(idx), idx counted from 0
has_active_stage(mission, idx) == idx < Len(mission.stages)

active_stage(mission, idx) == mission.stages[idx + 1]

\* upper_stages_mass: total mass of stages[current_idx + 1 ..]
upper_stages_mass(mission, current_idx) == SumTotalMass(mission.stages, current_idx + 2)

\* ------------------------------------------------------------------------
\* Atmosphere (atmosphere.rs): density of the ISA model, g/m^3, as the
\* linear interpolation of the values of isa() at the table altitudes (m).
\* ------------------------------------------------------------------------

IsaTable ==
    << <<0, 1225>>, <<1000, 1112>>, <<2000, 1007>>, <<5000, 736>>,
       <<11000, 364>>, <<20000, 88>>, <<32000, 13>>, <<86000, 0>> >>

RECURSIVE IsaInterp(_, _)
IsaInterp(h, i) ==
    IF i >= Len(IsaTable) THEN IsaTable[Len(IsaTable)][2]
    ELSE IF h < IsaTable[i + 1][1]
         THEN IsaTable[i][2]
              - Div((IsaTable[i][2] - IsaTable[i + 1][2]) * (h - IsaTable[i][1]),
                    IsaTable[i + 1][1] - IsaTable[i][1])
         ELSE IsaInterp(h, i + 1)

\* isa(altitude).density; altitude in cm, clamped at sea level
isa_density(altitude) == IsaInterp(Div(Max(altitude, 0), 100), 1)

\* ------------------------------------------------------------------------
\* State (dynamics/state.rs)
\* ------------------------------------------------------------------------

\* State::apply: one Euler step of length dt along the derivative d
apply(s, d, dt) ==
    [ time      |-> s.time + dt,
      pos       |-> VAdd(s.pos, VDiv(VScale(d.dpos, dt), 1000)),
      vel       |-> VAdd(s.vel, VDiv(VScale(d.dvel, dt), 1000)),
      quat      |-> QNormalize(<< s.quat[1] + Div(d.dquat[1] * dt, 1000),
                                  s.quat[2] + Div(d.dquat[2] * dt, 1000),
                                  s.quat[3] + Div(d.dquat[3] * dt, 1000),
                                  s.quat[4] + Div(d.dquat[4] * dt, 1000) >>),
      omega     |-> VAdd(s.omega, VDiv(VScale(d.domega, dt), 1000)),
      mass      |-> Max(s.mass + Div(d.dmass * dt, 1000), 0),
      stage_idx |-> s.stage_idx ]

\* State::body_z: the body Z axis in the inertial frame, 1/1000
body_z(s) == QRotate(s.quat, <<0, 0, 1000>>)

\* State::pitch: asin(body_z.z), mrad
pitch(s) == Asin(Clamp(body_z(s)[3], -1000, 1000))

\* ------------------------------------------------------------------------
\* 6DOF equations of motion (dynamics/sixdof.rs)
\* ------------------------------------------------------------------------

\* zero_deriv: past the last stage, gravity only
gravity_g(alt) ==
    LET ratio == Div(EARTH_RADIUS * 10000, EARTH_RADIUS + Div(alt, 10000))
    IN  Div(Div(G0 * ratio, 10000) * ratio, 10000)

\* a variant with the sea-level gravity at every altitude (C22 must tell it
\* apart)
zero_deriv_surface_gravity(state) ==
    [ dpos   |-> state.vel,
      dvel   |-> <<0, 0, -G0>>,
      dquat  |-> <<0, 0, 0, 0>>,
      domega |-> VZero,
      dmass  |-> 0 ]

zero_deriv(state) ==
    [ dpos   |-> state.vel,
      dvel   |-> <<0, 0, -gravity_g(Max(state.pos[3], 0))>>,
      dquat  |-> <<0, 0, 0, 0>>,
      domega |-> VZero,
      dmass  |-> 0 ]

\* remaining_prop = state.mass - stage.dry_mass - upper_stages_mass(...)
remaining_prop(state, mission) ==
    state.mass - active_stage(mission, state.stage_idx).dry_mass
        - upper_stages_mass(mission, state.stage_idx)

\* burning = remaining_prop > 0.01 && stage.thrust > 0.0
burning(state, mission) ==
    remaining_prop(state, mission) > 10
        /\ active_stage(mission, state.stage_idx).thrust > 0

\* a variant that uses the commanded deflections as they are (C9 must tell
\* it apart)
gimbal_used_raw(stage, cmd) == [ gy |-> cmd.gimbal_y, gz |-> cmd.gimbal_z ]

\* the gimbal deflections used: cmd clamped to +-tvc_max of the stage
gimbal_used(stage, cmd) ==
    [ gy |-> Clamp(cmd.gimbal_y, -stage.tvc_max, stage.tvc_max),
      gz |-> Clamp(cmd.gimbal_z, -stage.tvc_max, stage.tvc_max) ]

\* a variant gated on remaining propellant > 0 instead of `burning` (C10
\* must tell it apart)
f_thrust_body_own_gate(state, mission, cmd) ==
    LET stage == active_stage(mission, state.stage_idx)
        g     == gimbal_used(stage, cmd)
    IN  IF remaining_prop(state, mission) > 0 /\ stage.thrust > 0
        THEN << Div(stage.thrust * SinMilli(g.gz), 1000),
                Div(stage.thrust * SinMilli(g.gy), 1000),
                Div(Div(stage.thrust * CosMilli(g.gy), 1000) * CosMilli(g.gz), 1000) >>
        ELSE VZero

\* f_thrust_body: the thrust in the body frame, mN
f_thrust_body(state, mission, cmd) ==
    LET stage == active_stage(mission, state.stage_idx)
        g     == gimbal_used(stage, cmd)
    IN  IF burning(state, mission)
        THEN << Div(stage.thrust * SinMilli(g.gz), 1000),
                Div(stage.thrust * SinMilli(g.gy), 1000),
                Div(Div(stage.thrust * CosMilli(g.gy), 1000) * CosMilli(g.gz), 1000) >>
        ELSE VZero

\* dynamic pressure 0.5 rho speed^2, in 0.01 Pa
q_dyn(state) ==
    LET speed == VNorm(state.vel)
    IN  Div(Div(speed * speed, 2000) * isa_density(Max(state.pos[3], 0)), 100)

\* f_drag: quadratic drag opposing the velocity, mN
f_drag(state, stage) ==
    LET speed    == VNorm(state.vel)
        drag_mag == Div(Div(q_dyn(state), 100) * Div(stage.cd * stage.area, 10), 1000)
    IN  IF speed > 0
        THEN VDiv(VScale(state.vel, -drag_mag), speed)
        ELSE VZero

\* TVC torque: arm x f_thrust_body, arm = (0, 0, -nozzle_offset); mN*cm
tvc_torque(state, mission, cmd) ==
    LET stage == active_stage(mission, state.stage_idx)
    IN  IF burning(state, mission)
        THEN VCross(<<0, 0, -stage.nozzle_offset>>, f_thrust_body(state, mission, cmd))
        ELSE VZero

\* aerodynamic restoring moment from the CP-CG offset, mN*cm
restoring_torque(state, stage) ==
    LET speed        == VNorm(state.vel)
        vel_body     == QRotate(QInverse(state.quat), state.vel)
        alpha_y      == Atan2(vel_body[2], vel_body[3])
        alpha_z      == Atan2(vel_body[1], vel_body[3])
        normal_force == Div(Div(q_dyn(state), 10) * stage.area * 2, 100)
    IN  IF speed > 100 /\ Abs(stage.cp_offset) > 0
        THEN << Div(-normal_force * alpha_y, 1000) * stage.cp_offset,
                Div(normal_force * alpha_z, 1000) * stage.cp_offset,
                0 >>
        ELSE VZero

\* aerodynamic damping, proportional to the angular rate, mN*cm
damping_torque(state, stage) ==
    LET speed == VNorm(state.vel)
        damp  == Div(q_dyn(state) * stage.area, 200)
    IN  IF speed > 100
        THEN VDiv(VScale(state.omega, -damp), 100)
        ELSE VZero

\* Euler's equation: I domega = torque - omega x (I omega)
euler_domega(state, stage, torque_body) ==
    LET i_vec   == stage.inertia
        w       == state.omega
        i_omega == <<i_vec[1] * w[1], i_vec[2] * w[2], i_vec[3] * w[3]>>
    IN  << Div(torque_body[1] - Div(w[2] * i_omega[3] - w[3] * i_omega[2], 1000), i_vec[1]),
           Div(torque_body[2] - Div(w[3] * i_omega[1] - w[1] * i_omega[3], 1000), i_vec[2]),
           Div(torque_body[3] - Div(w[1] * i_omega[2] - w[2] * i_omega[1], 1000), i_vec[3]) >>

\* accel = f_total / state.mass is a finite number unless the mass is zero
accel_finite(state, mission) ==
    has_active_stage(mission, state.stage_idx) => state.mass # 0

\* derivatives: the full 6DOF state derivative
derivatives(state, mission, cmd) ==
    IF ~has_active_stage(mission, state.stage_idx) THEN zero_deriv(state)
    ELSE
    LET stage     == active_stage(mission, state.stage_idx)
        alt       == Max(state.pos[3], 0)
        f_gravity == <<0, 0, Div(-gravity_g(alt) * state.mass, 100)>>
        f_thrust_inertial == QRotate(state.quat, f_thrust_body(state, mission, cmd))
        f_total   == VAdd(f_gravity, VAdd(f_thrust_inertial, f_drag(state, stage)))
        \* f_total / 0 is infinite or NaN: see accel_finite
        accel     == IF state.mass = 0 THEN VZero
                     ELSE VDiv(VScale(f_total, 100), state.mass)
        torque_body == VAdd(tvc_torque(state, mission, cmd),
                            VAdd(restoring_torque(state, stage), damping_torque(state, stage)))
        omega_quat == <<0, state.omega[1], state.omega[2], state.omega[3]>>
        qw        == QMul(state.quat, omega_quat)
    IN  [ dpos   |-> state.vel,
          dvel   |-> accel,
          dquat  |-> <<Div(qw[1], 2000), Div(qw[2], 2000), Div(qw[3], 2000), Div(qw[4], 2000)>>,
          domega |-> euler_domega(state, stage, torque_body),
          dmass  |-> IF burning(state, mission) THEN -mass_flow(stage) ELSE 0 ]

\* ------------------------------------------------------------------------
\* RK4 integrator (sim/integrator.rs)
\* ------------------------------------------------------------------------

\* (k1 + 2 k2 + 2 k3 + k4) * (dt / 6)
Rk4Sum(k1, k2, k3, k4, dt) == Div((k1 + 2 * k2 + 2 * k3 + k4) * dt, 6000)

\* v + (k1 + 2 k2 + 2 k3 + k4) * (dt / 6) on a Vector3
Rk4V3(v, k1, k2, k3, k4, dt) ==
    << v[1] + Rk4Sum(k1[1], k2[1], k3[1], k4[1], dt),
       v[2] + Rk4Sum(k1[2], k2[2], k3[2], k4[2], dt),
       v[3] + Rk4Sum(k1[3], k2[3], k3[3], k4[3], dt) >>

\* the states at which rk4_step evaluates k2, k3 and k4 (k1 is evaluated at
\* `state`), all with the one cmd of the step
rk4_s2(state, mission, cmd, dt) ==
    apply(state, derivatives(state, mission, cmd), Div(dt, 2))

\* a variant that evaluates k2 with the default command (C7 must tell it
\* apart)
rk4_s3_other_cmd(state, mission, cmd, dt) ==
    apply(state, derivatives(rk4_s2(state, mission, cmd, dt), mission,
                             [gimbal_y |-> 0, gimbal_z |-> 0]), Div(dt, 2))

rk4_s3(state, mission, cmd, dt) ==
    apply(state, derivatives(rk4_s2(state, mission, cmd, dt), mission, cmd), Div(dt, 2))

rk4_s4(state, mission, cmd, dt) ==
    apply(state, derivatives(rk4_s3(state, mission, cmd, dt), mission, cmd), dt)

rk4_points(state, mission, cmd, dt) ==
    << state, rk4_s2(state, mission, cmd, dt), rk4_s3(state, mission, cmd, dt),
       rk4_s4(state, mission, cmd, dt) >>

\* the new State from the four derivatives
rk4_combine(state, k1, k2, k3, k4, dt) ==
    [ time      |-> state.time + dt,
      pos       |-> Rk4V3(state.pos, k1.dpos, k2.dpos, k3.dpos, k4.dpos, dt),
      vel       |-> Rk4V3(state.vel, k1.dvel, k2.dvel, k3.dvel, k4.dvel, dt),
      quat      |-> QNormalize(
          << state.quat[1] + Rk4Sum(k1.dquat[1], k2.dquat[1], k3.dquat[1], k4.dquat[1], dt),
             state.quat[2] + Rk4Sum(k1.dquat[2], k2.dquat[2], k3.dquat[2], k4.dquat[2], dt),
             state.quat[3] + Rk4Sum(k1.dquat[3], k2.dquat[3], k3.dquat[3], k4.dquat[3], dt),
             state.quat[4] + Rk4Sum(k1.dquat[4], k2.dquat[4], k3.dquat[4], k4.dquat[4], dt) >>),
      omega     |-> Rk4V3(state.omega, k1.domega, k2.domega, k3.domega, k4.domega, dt),
      mass      |-> Max(state.mass + Rk4Sum(k1.dmass, k2.dmass, k3.dmass, k4.dmass, dt), 0),
      stage_idx |-> state.stage_idx ]

\* the derivatives at the four points
rk4_from(p, mission, cmd, dt) ==
    rk4_combine(p[1], derivatives(p[1], mission, cmd), derivatives(p[2], mission, cmd),
                derivatives(p[3], mission, cmd), derivatives(p[4], mission, cmd), dt)

\* rk4_step: single RK4 step with a constant GNC command over the step
rk4_step(state, mission, cmd, dt) ==
    rk4_from(rk4_points(state, mission, cmd, dt), mission, cmd, dt)

\* every quotient by the mass taken at the four points is finite
points_finite(p, mission) == \A i \in 1..4 : accel_finite(p[i], mission)

\* ------------------------------------------------------------------------
\* Stage separation (sim/runner.rs)
\* ------------------------------------------------------------------------

\* a variant that advances past the last stage (C1 must tell it apart)
check_staging_past_last(state, mission) ==
    IF state.stage_idx >= Len(mission.stages) THEN state
    ELSE LET stage          == mission.stages[state.stage_idx + 1]
             upper_mass     == SumTotalMass(mission.stages, state.stage_idx + 2)
             remaining      == state.mass - stage.dry_mass - upper_mass
         IN  IF remaining <= 10
             THEN [state EXCEPT !.mass = state.mass - stage.dry_mass,
                                !.stage_idx = state.stage_idx + 1]
             ELSE state

\* a variant that drops the spent stage's wet mass (C5 must tell it apart)
check_staging_drops_wet(state, mission) ==
    IF state.stage_idx >= Len(mission.stages) THEN state
    ELSE LET stage          == mission.stages[state.stage_idx + 1]
             upper_mass     == SumTotalMass(mission.stages, state.stage_idx + 2)
             remaining      == state.mass - stage.dry_mass - upper_mass
         IN  IF remaining <= 10 /\ state.stage_idx + 1 < Len(mission.stages)
             THEN [state EXCEPT !.mass = state.mass - total_mass(stage),
                                !.stage_idx = state.stage_idx + 1]
             ELSE state

\* a variant that goes on jettisoning while the newly active stage is empty
\* too (C27 must tell it apart)
check_staging_cascade(state, mission) ==
    LET once(st) ==
            IF st.stage_idx >= Len(mission.stages) THEN st
            ELSE LET stage      == mission.stages[st.stage_idx + 1]
                     upper_mass == SumTotalMass(mission.stages, st.stage_idx + 2)
                     remaining  == st.mass - stage.dry_mass - upper_mass
                 IN  IF remaining <= 10 /\ st.stage_idx + 1 < Len(mission.stages)
                     THEN [st EXCEPT !.mass = st.mass - stage.dry_mass,
                                     !.stage_idx = st.stage_idx + 1]
                     ELSE st
    IN  once(once(state))

\* a variant whose separation also stops the spin (C26 must tell it apart)
check_staging_stops_spin(state, mission) ==
    IF state.stage_idx >= Len(mission.stages) THEN state
    ELSE LET stage          == mission.stages[state.stage_idx + 1]
             upper_mass     == SumTotalMass(mission.stages, state.stage_idx + 2)
             remaining      == state.mass - stage.dry_mass - upper_mass
         IN  IF remaining <= 10 /\ state.stage_idx + 1 < Len(mission.stages)
             THEN [state EXCEPT !.mass = state.mass - stage.dry_mass,
                                !.stage_idx = state.stage_idx + 1,
                                !.omega = VZero]
             ELSE state

\* check_staging: if the active stage's propellant is exhausted and a next
\* stage exists, drop the active stage's dry mass and advance
check_staging(state, mission) ==
    IF state.stage_idx >= Len(mission.stages) THEN state
    ELSE LET stage          == mission.stages[state.stage_idx + 1]
             upper_mass     == SumTotalMass(mission.stages, state.stage_idx + 2)
             remaining      == state.mass - stage.dry_mass - upper_mass
         IN  IF remaining <= 10 /\ state.stage_idx + 1 < Len(mission.stages)
             THEN [state EXCEPT !.mass = state.mass - stage.dry_mass,
                                !.stage_idx = state.stage_idx + 1]
             ELSE state

\* ------------------------------------------------------------------------
\* Guidance and control (gnc_mod)
\* ------------------------------------------------------------------------

\* a variant that follows the velocity as soon as the vehicle is faster than
\* 5 m/s after the vertical ascent (C23 must tell it apart)
guidance_pitch_early_turn(state) ==
    LET t               == state.time
        t_vertical      == 2000
        t_pitchover_end == 15000
        target_pitch    == 785
        frac_pi_2       == 1571
        speed           == VNorm(state.vel)
    IN  IF t < t_vertical THEN frac_pi_2
        ELSE IF speed > 500 THEN Asin(Div(state.vel[3] * 1000, speed))
        ELSE IF t < t_pitchover_end
        THEN frac_pi_2 + Div((t - t_vertical) * (target_pitch - frac_pi_2),
                             t_pitchover_end - t_vertical)
        ELSE target_pitch

\* guidance_pitch: the three-phase pitch program, mrad from the horizontal
guidance_pitch(state) ==
    LET t               == state.time
        t_vertical      == 2000
        t_pitchover_end == 15000
        target_pitch    == 785
        frac_pi_2       == 1571
        speed           == VNorm(state.vel)
    IN  IF t < t_vertical THEN frac_pi_2
        ELSE IF t < t_pitchover_end
        THEN frac_pi_2 + Div((t - t_vertical) * (target_pitch - frac_pi_2),
                             t_pitchover_end - t_vertical)
        ELSE IF speed > 500 THEN Asin(Div(state.vel[3] * 1000, speed))
        ELSE target_pitch

\* Pid::new; the gains in 1/10, the integral in mrad*ms
Pid_new(kp, ki, kd) == [kp |-> kp, ki |-> ki, kd |-> kd, integral |-> 0, prev_error |-> 0]

\* a variant that integrates the last call only (C12 must tell it apart)
Pid_update_last_only(pid, error, dt) ==
    LET integral   == Clamp(error * dt, -1000000, 1000000)
        derivative == IF dt > 0 THEN Div((error - pid.prev_error) * 1000, dt) ELSE 0
    IN  [ pid |-> [pid EXCEPT !.integral = integral, !.prev_error = error],
          out |-> Div(pid.kp * error + Div(pid.ki * integral, 1000) + pid.kd * derivative, 10) ]

\* a variant without the anti-windup clamp (C13 must tell it apart)
Pid_update_no_clamp(pid, error, dt) ==
    LET integral   == pid.integral + error * dt
        derivative == IF dt > 0 THEN Div((error - pid.prev_error) * 1000, dt) ELSE 0
    IN  [ pid |-> [pid EXCEPT !.integral = integral, !.prev_error = error],
          out |-> Div(pid.kp * error + Div(pid.ki * integral, 1000) + pid.kd * derivative, 10) ]

\* a variant whose derivative term takes the proportional gain (C14 must
\* tell it apart)
Pid_update_kp_on_derivative(pid, error, dt) ==
    LET integral   == Clamp(pid.integral + error * dt, -1000000, 1000000)
        derivative == IF dt > 0 THEN Div((error - pid.prev_error) * 1000, dt) ELSE 0
    IN  [ pid |-> [pid EXCEPT !.integral = integral, !.prev_error = error],
          out |-> Div(pid.kp * error + Div(pid.ki * integral, 1000) + pid.kp * derivative, 10) ]

\* Pid::update: the Pid after the call and the value returned (mrad)
Pid_update(pid, error, dt) ==
    LET integral   == Clamp(pid.integral + error * dt, -1000000, 1000000)
        derivative == IF dt > 0 THEN Div((error - pid.prev_error) * 1000, dt) ELSE 0
    IN  [ pid |-> [pid EXCEPT !.integral = integral, !.prev_error = error],
          out |-> Div(pid.kp * error + Div(pid.ki * integral, 1000) + pid.kd * derivative, 10) ]

\* a variant that keeps the previous error (C15 must tell it apart)
Pid_reset_keeps_error(pid) == [pid EXCEPT !.integral = 0]

\* Pid::reset
Pid_reset(pid) == [pid EXCEPT !.integral = 0, !.prev_error = 0]

\* TvcController::new
TvcController_new == [pitch_pid |-> Pid_new(20, 1, 5), yaw_pid |-> Pid_new(20, 1, 5)]

\* TvcController::update: the controller after the call and the command
TvcController_update(ctl, state, dt) ==
    LET desired_pitch == guidance_pitch(state)
        current_pitch == pitch(state)
        pitch_error   == desired_pitch - current_pitch
        bz            == body_z(state)
        yaw_error     == -Atan2(bz[1], Isqrt(bz[2] * bz[2] + bz[3] * bz[3]))
        py            == Pid_update(ctl.pitch_pid, pitch_error, dt)
        pz            == Pid_update(ctl.yaw_pid, yaw_error, dt)
    IN  [ ctl |-> [pitch_pid |-> py.pid, yaw_pid |-> pz.pid],
          cmd |-> [gimbal_y |-> py.out, gimbal_z |-> pz.out] ]

\* TvcController::reset
TvcController_reset(ctl) ==
    [pitch_pid |-> Pid_reset(ctl.pitch_pid), yaw_pid |-> Pid_reset(ctl.yaw_pid)]

\* GncCommand::default
GncCommand_default == [gimbal_y |-> 0, gimbal_z |-> 0]

\* ------------------------------------------------------------------------
\* Missions, configurations and controllers the runs are checked for
\* ------------------------------------------------------------------------

\* the longest run, in outer steps
MaxSteps == 7

Stage(dry, prop, thrust, isp, cd, tvc) ==
    [ dry_mass |-> dry, propellant_mass |-> prop, thrust |-> thrust, isp |-> isp,
      cd |-> cd, area |-> 20, inertia |-> <<500, 500, 50>>, nozzle_offset |-> 10,
      cp_offset |-> 3, tvc_max |-> tvc ]

\* one stage, thrust-to-weight 2.9: lifts off, burns out and falls back
SingleStage == [stages |-> << Stage(2000, 120, 60000, 25, 300, 100) >>]

\* a booster and a small sustainer
TwoStage ==
    [stages |-> << Stage(1000, 539, 100000, 20, 300, 100),
                   Stage(100, 120, 5000, 40, 0, 80) >>]

Missions == {SingleStage, TwoStage}

\* SimConfig.dt, ms
Dts == {500, 1000}

\* SimConfig.max_time for a timestep: none, and MaxSteps steps (the last one
\* starting half a step before the limit)
MaxTimes(dt) == {0, MaxSteps * dt - Div(dt, 2)}

\* what a caller's Controller may return from control()
CustomCmds ==
    { [gimbal_y |-> 0, gimbal_z |-> 0],
      [gimbal_y |-> 300, gimbal_z |-> -300] }

\* ------------------------------------------------------------------------
\* simulate_with (sim/runner.rs)
\* ------------------------------------------------------------------------

VARIABLES
    mission,      \* the Mission of the run
    config,       \* SimConfig: dt, max_time
    controller,   \* the Controller: kind "tvc" (a TvcController) or "custom"
    state,        \* the local `state`
    launched,     \* the local `launched`
    trajectory,   \* the Vec<State> returned
    commands,     \* the Vec<GncCommand> returned
    pc,           \* "loop": in the while loop; "done": returned;
                  \* "nonfinite": the run is not followed (StepNonFinite)
    ctl_log,      \* history: each control() call's receiver, state argument
                  \* and result
    integ,        \* history: what rk4_step returned in the last step
    points        \* history: the states of the last step's derivative calls

\* the variables of simulate_with
runner_vars == <<mission, config, controller, state, launched, trajectory, commands,
                 pc, ctl_log, integ, points>>

\* the variables of the component harnesses (defined after the runner); a
\* run of simulate_with leaves them alone
VARIABLES
    clock,        \* the loop's clock alone, in a short binary floating point
    pids,         \* a Pid and a TvcController driven call by call
    pair,         \* two runs of simulate_with, interleaved
    probe         \* single calls of the components, one after another

harness_vars == <<clock, pids, pair, probe>>

vars == <<runner_vars, harness_vars>>

\* the harnesses at rest
Idle == "idle"

\* a variant that starts at the first stage's dry mass (C8 must tell it
\* apart)
Ignition_dry(m) ==
    [ time |-> 0, pos |-> VZero, vel |-> VZero, quat |-> QIdentity, omega |-> VZero,
      mass |-> m.stages[1].dry_mass, stage_idx |-> 0 ]

\* the state at ignition
Ignition(m) ==
    [ time |-> 0, pos |-> VZero, vel |-> VZero, quat |-> QIdentity, omega |-> VZero,
      mass |-> mission_total_mass(m), stage_idx |-> 0 ]

Init ==
    /\ mission \in Missions
    /\ \E dt \in Dts : \E mt \in MaxTimes(dt) : config = [dt |-> dt, max_time |-> mt]
    /\ controller \in { [kind |-> "tvc", tvc |-> TvcController_new],
                        [kind |-> "custom", tvc |-> TvcController_new] }
    /\ state = Ignition(mission)
    /\ launched = FALSE
    /\ trajectory = << Ignition(mission) >>
    /\ commands = << GncCommand_default >>
    /\ pc = "loop"
    /\ ctl_log = << >>
    /\ integ = Ignition(mission)
    /\ points = << >>
    /\ clock = Idle /\ pids = Idle /\ pair = Idle /\ probe = Idle

\* controller.control(&state, mission, dt): the results it may give, each with
\* the controller after the call
Control(ctl, s, dt) ==
    IF ctl.kind = "tvc"
    THEN LET r == TvcController_update(ctl.tvc, s, dt)
         IN  { [ctl |-> [ctl EXCEPT !.tvc = r.ctl], cmd |-> r.cmd] }
    ELSE { [ctl |-> ctl, cmd |-> c] : c \in CustomCmds }

\* a variant that never sets the flag (C6 must tell it apart)
Launched_never(l, s) == l

\* a variant that takes the vehicle as launched from the first step (C29
\* must tell it apart)
Launched_at_once(l, s) == TRUE

\* the `launched` flag after the step
Launched(l, s) == l \/ s.pos[3] > 100

\* the iteration's effect on the controller, the command history and the
\* histories of the model
Iteration(r, p, i, s) ==
    /\ controller' = r.ctl
    /\ ctl_log' = Append(ctl_log, [ctl |-> controller, input |-> state, cmd |-> r.cmd])
    /\ points' = p
    /\ integ' = i
    /\ launched' = Launched(launched, s)
    /\ commands' = Append(commands, r.cmd)
    /\ UNCHANGED <<mission, config>>
    /\ UNCHANGED harness_vars

\* the sample is pushed and the loop continues
Continue(r, p, i, s) ==
    /\ points_finite(p, mission)
    /\ ~(Launched(launched, s) /\ s.pos[3] <= 0)
    /\ Iteration(r, p, i, s)
    /\ state' = s
    /\ trajectory' = Append(trajectory, s)
    /\ pc' = "loop"

\* ground impact: the altitude is clamped, the sample pushed, the loop left
Impact(r, p, i, s) ==
    /\ points_finite(p, mission)
    /\ Launched(launched, s) /\ s.pos[3] <= 0
    /\ Iteration(r, p, i, s)
    /\ state' = [s EXCEPT !.pos = <<s.pos[1], s.pos[2], 0>>]
    /\ trajectory' = Append(trajectory, [s EXCEPT !.pos = <<s.pos[1], s.pos[2], 0>>])
    /\ pc' = "done"

\* the iteration from the four points of its RK4 step: rk4_step, then
\* check_staging, then the ground test
ContinueOn(r, p, i) == Continue(r, p, i, check_staging(i, mission))

ContinueFrom(r, p) == ContinueOn(r, p, rk4_from(p, mission, r.cmd, config.dt))

ImpactOn(r, p, i) == Impact(r, p, i, check_staging(i, mission))

ImpactFrom(r, p) == ImpactOn(r, p, rk4_from(p, mission, r.cmd, config.dt))

\* one iteration of the while loop that pushes the sample and loops
StepContinue ==
    /\ pc = "loop"
    /\ state.time < config.max_time
    /\ \E r \in Control(controller, state, config.dt) :
         ContinueFrom(r, rk4_points(state, mission, r.cmd, config.dt))

\* one iteration that ends in ground impact: clamp, push, break
StepImpact ==
    /\ pc = "loop"
    /\ state.time < config.max_time
    /\ \E r \in Control(controller, state, config.dt) :
         ImpactFrom(r, rk4_points(state, mission, r.cmd, config.dt))

\* the loop condition fails: return (trajectory, commands)
LoopExit ==
    /\ pc = "loop"
    /\ ~(state.time < config.max_time)
    /\ pc' = "done"
    /\ UNCHANGED <<mission, config, controller, state, launched, trajectory,
                   commands, ctl_log, integ, points>>
    /\ UNCHANGED harness_vars

\* the fields of a State that are infinite or NaN in f64, or depend on one
NotFollowed == "not followed"

\* an iteration that divides by a zero mass: the accelerations of the step
\* are infinite or NaN.  Time, mass and stage index of the sample do not
\* depend on them and are those of rk4_step and check_staging; the other
\* fields, and the rest of the run, are not followed
NonFinite(r, p, i, s) ==
    /\ ~points_finite(p, mission)
    /\ controller' = r.ctl
    /\ ctl_log' = Append(ctl_log, [ctl |-> controller, input |-> state, cmd |-> r.cmd])
    /\ points' = p
    /\ integ' = [time |-> i.time, pos |-> NotFollowed, vel |-> NotFollowed,
                 quat |-> NotFollowed, omega |-> NotFollowed,
                 mass |-> i.mass, stage_idx |-> i.stage_idx]
    /\ state' = [time |-> s.time, pos |-> NotFollowed, vel |-> NotFollowed,
                 quat |-> NotFollowed, omega |-> NotFollowed,
                 mass |-> s.mass, stage_idx |-> s.stage_idx]
    /\ trajectory' = Append(trajectory, state')
    /\ commands' = Append(commands, r.cmd)
    /\ pc' = "nonfinite"
    /\ UNCHANGED <<mission, config, launched>>
    /\ UNCHANGED harness_vars

NonFiniteOn(r, p, i) == NonFinite(r, p, i, check_staging(i, mission))

NonFiniteFrom(r, p) == NonFiniteOn(r, p, rk4_from(p, mission, r.cmd, config.dt))

StepNonFinite ==
    /\ pc = "loop"
    /\ state.time < config.max_time
    /\ \E r \in Control(controller, state, config.dt) :
         NonFiniteFrom(r, rk4_points(state, mission, r.cmd, config.dt))

Next == StepContinue \/ StepImpact \/ LoopExit \/ StepNonFinite

Spec == Init /\ [][Next]_vars

\* ------------------------------------------------------------------------
\* Properties of the recorded run
\* ------------------------------------------------------------------------

\* number of stages of the mission
NStages == Len(mission.stages)

\* the last recorded sample
LastSample == trajectory[Len(trajectory)]

\* remaining propellant of a sample's active stage, as check_staging and
\* derivatives compute it
SampleRemaining(k) == remaining_prop(trajectory[k], mission)

\* sum of the dry masses of stage idx (0-based) and of all stages above it
RECURSIVE DrySum(_, _)
DrySum(stages, from) ==
    IF from > Len(stages) THEN 0 ELSE stages[from].dry_mass + DrySum(stages, from + 1)

\* C1: the stage index of the recorded samples never decreases and never
\* exceeds N-1, and a sample on the last stage is followed only by samples
\* on the last stage, whatever its remaining propellant
C1_StageIndexMonotone ==
    /\ \A k \in 1..Len(trajectory) :
         trajectory[k].stage_idx >= 0 /\ trajectory[k].stage_idx <= NStages - 1
    /\ \A k \in 1..(Len(trajectory) - 1) :
         /\ trajectory[k].stage_idx <= trajectory[k + 1].stage_idx
         /\ trajectory[k].stage_idx = NStages - 1
              => trajectory[k + 1].stage_idx = NStages - 1

\* a run that staged, exhausted its last stage and stepped on
C1_Witness ==
    /\ NStages = 2
    /\ pc = "loop"
    /\ \E k \in 1..(Len(trajectory) - 1) :
         trajectory[k].stage_idx = 0 /\ trajectory[k + 1].stage_idx = 1
    /\ \E k \in 1..(Len(trajectory) - 1) :
         /\ trajectory[k].stage_idx = 1
         /\ SampleRemaining(k) <= 10
         /\ trajectory[k + 1].stage_idx = 1

\* C2: the mass of every recorded sample is >= 0
C2_MassNonNegative == \A k \in 1..Len(trajectory) : trajectory[k].mass >= 0

\* C3: from a sample whose stage is burning the mass does not increase, and
\* from a sample whose last stage is exhausted the mass stays the same
C3_MassMonotone ==
    \A k \in 1..(Len(trajectory) - 1) :
      /\ burning(trajectory[k], mission) => trajectory[k + 1].mass <= trajectory[k].mass
      /\ (trajectory[k].stage_idx = NStages - 1 /\ SampleRemaining(k) <= 10)
           => trajectory[k + 1].mass = trajectory[k].mass

\* C4: the mass of every recorded sample is at least the dry masses of the
\* active stage and of the stages above it
C4_MassAboveDry ==
    \A k \in 1..Len(trajectory) :
      trajectory[k].mass >= DrySum(mission.stages, trajectory[k].stage_idx + 1)

\* remaining propellant of the state rk4_step returned in the last step
IntegRemaining ==
    integ.mass - active_stage(mission, integ.stage_idx).dry_mass
      - upper_stages_mass(mission, integ.stage_idx)

\* C5: the sample of a step has the next stage index exactly when the
\* integrated state has remaining propellant <= 0.01 kg and a next stage
\* exists, and then its mass is the integrated mass less the jettisoned
\* stage's dry mass; otherwise mass and stage index are the integrated ones
C5_StagingRule ==
    Len(trajectory) > 1 =>
      LET staged == IntegRemaining <= 10 /\ integ.stage_idx + 1 < NStages
      IN  /\ (LastSample.stage_idx = integ.stage_idx + 1) <=> staged
          /\ staged =>
               LastSample.mass
                 = integ.mass - active_stage(mission, integ.stage_idx).dry_mass
          /\ ~staged =>
               /\ LastSample.mass = integ.mass
               /\ LastSample.stage_idx = integ.stage_idx

\* a step that staged
C5_Witness ==
    /\ Len(trajectory) > 1
    /\ IntegRemaining <= 10
    /\ integ.stage_idx = 0
    /\ LastSample.stage_idx = 1
    /\ LastSample.mass = integ.mass - mission.stages[1].dry_mass

\* the recorded samples whose every field is followed
FiniteLen == IF pc = "nonfinite" THEN Len(trajectory) - 1 ELSE Len(trajectory)

\* some sample up to the k-th had altitude > 1 m
LaunchedBy(k) == \E j \in 1..k : trajectory[j].pos[3] > 100

\* C6: the launched flag is set exactly when some sample had altitude
\* > 1 m; a sample recorded after that has altitude > 0, or has altitude
\* exactly 0, is the final sample of a run that has returned, and no
\* controller call or command follows it; and a step after launch whose
\* integrated altitude is <= 0 ends the run, whatever the time
C6_GroundImpact ==
    /\ launched = LaunchedBy(FiniteLen)
    /\ \A k \in 2..FiniteLen :
         LaunchedBy(k - 1) =>
           \/ trajectory[k].pos[3] > 0
           \/ /\ trajectory[k].pos[3] = 0
              /\ k = Len(trajectory)
              /\ pc = "done"
              /\ Len(ctl_log) = k - 1
              /\ Len(commands) = k
    /\ (pc # "nonfinite" /\ Len(trajectory) > 1
          /\ LaunchedBy(Len(trajectory) - 1) /\ integ.pos[3] <= 0)
         => pc = "done" /\ LastSample.pos[3] = 0

\* a run ended by a step that went below the ground before max_time
C6_Witness ==
    /\ pc = "done"
    /\ Len(trajectory) > 2
    /\ LaunchedBy(Len(trajectory) - 1)
    /\ integ.pos[3] < 0
    /\ LastSample.pos[3] = 0
    /\ LastSample.time < config.max_time

\* C7: there is one control() call per recorded step, made on the sample
\* before the step; its result is the command recorded with the step's
\* sample; and the step's four derivative evaluations and its result are
\* those of that one command
C7_OneCommandPerStep ==
    /\ Len(ctl_log) = Len(trajectory) - 1
    /\ \A k \in 1..Len(ctl_log) :
         /\ ctl_log[k].input = trajectory[k]
         /\ commands[k + 1] = ctl_log[k].cmd
    /\ (Len(trajectory) > 1 /\ pc # "nonfinite") =>
         LET pre == trajectory[Len(trajectory) - 1]
             cmd == commands[Len(commands)]
             k1  == derivatives(points[1], mission, cmd)
             k2  == derivatives(points[2], mission, cmd)
             k3  == derivatives(points[3], mission, cmd)
             k4  == derivatives(points[4], mission, cmd)
         IN  /\ points[1] = pre
             /\ points[2] = apply(pre, k1, Div(config.dt, 2))
             /\ points[3] = apply(pre, k2, Div(config.dt, 2))
             /\ points[4] = apply(pre, k3, config.dt)
             /\ integ = rk4_combine(pre, k1, k2, k3, k4, config.dt)

\* a step taken while burning with a command that deflects the nozzle
C7_Witness ==
    /\ Len(trajectory) > 2
    /\ pc # "nonfinite"
    /\ commands[Len(commands)].gimbal_y # 0
    /\ \A i \in 1..4 : burning(points[i], mission)

\* C8: the two sequences have the same length >= 1; they start with the
\* ignition sample and the zero command; and the last element of each is the
\* state after the last step, one dt after the sample before it, and the
\* command of that step's control() call
C8_ParallelSequences ==
    /\ Len(trajectory) = Len(commands)
    /\ Len(trajectory) >= 1
    /\ trajectory[1] = [ time |-> 0, pos |-> <<0, 0, 0>>, vel |-> <<0, 0, 0>>,
                         quat |-> <<1000, 0, 0, 0>>, omega |-> <<0, 0, 0>>,
                         mass |-> mission_total_mass(mission), stage_idx |-> 0 ]
    /\ commands[1] = [gimbal_y |-> 0, gimbal_z |-> 0]
    /\ Len(trajectory) > 1 =>
         /\ LastSample = state
         /\ LastSample.time = trajectory[Len(trajectory) - 1].time + config.dt
         /\ commands[Len(commands)] = ctl_log[Len(ctl_log)].cmd

\* a returned run of several steps
C8_Witness == pc = "done" /\ Len(trajectory) > 3 /\ Len(commands) > 3

\* the deflection in magnitude beyond the travel of the stage
Exceeds(cmd, stage) ==
    Abs(cmd.gimbal_y) > stage.tvc_max \/ Abs(cmd.gimbal_z) > stage.tvc_max

\* cmd with both deflections limited to the travel of the stage
Limited(cmd, stage) ==
    [ gimbal_y |-> Max(-stage.tvc_max, Min(cmd.gimbal_y, stage.tvc_max)),
      gimbal_z |-> Max(-stage.tvc_max, Min(cmd.gimbal_z, stage.tvc_max)) ]

\* C9: at each derivative evaluation of a step the deflections used are
\* within +-tvc_max of the active stage and the thrust is that of the limited
\* command; every recorded command is what control() returned, and for a
\* TvcController that is the pair of PID outputs, unlimited
C9_ClampInForceModel ==
    /\ Len(trajectory) > 1 =>
         \A i \in 1..4 :
           LET stage == active_stage(mission, points[i].stage_idx)
               cmd   == commands[Len(commands)]
               used  == gimbal_used(stage, cmd)
           IN  /\ used.gy >= -stage.tvc_max /\ used.gy <= stage.tvc_max
               /\ used.gz >= -stage.tvc_max /\ used.gz <= stage.tvc_max
               /\ f_thrust_body(points[i], mission, cmd)
                    = f_thrust_body(points[i], mission, Limited(cmd, stage))
    /\ \A k \in 1..Len(ctl_log) :
         /\ commands[k + 1] = ctl_log[k].cmd
         /\ ctl_log[k].ctl.kind = "tvc" =>
              LET pitch_error == guidance_pitch(ctl_log[k].input) - pitch(ctl_log[k].input)
                  py == Pid_update(ctl_log[k].ctl.tvc.pitch_pid, pitch_error, config.dt)
              IN  commands[k + 1].gimbal_y = py.out

\* a burning step of a TvcController whose recorded command exceeds the
\* travel of the active stage
C9_Witness ==
    /\ Len(trajectory) > 1
    /\ controller.kind = "tvc"
    /\ burning(points[1], mission)
    /\ Exceeds(commands[Len(commands)], active_stage(mission, points[1].stage_idx))

\* a state on the last stage with exactly the last stage's dry mass
AtDryMass(m) ==
    [ time |-> 0, pos |-> <<0, 0, 1000>>, vel |-> <<0, 0, 1000>>,
      quat |-> <<1000, 0, 0, 0>>, omega |-> <<0, 0, 0>>,
      mass |-> m.stages[Len(m.stages)].dry_mass, stage_idx |-> Len(m.stages) - 1 ]

\* C10: at each derivative evaluation of a step, thrust, nozzle torque and
\* mass flow are those of a burning stage (mass flow -thrust/(isp g0),
\* torque arm x thrust) when remaining propellant > 0.01 kg and thrust > 0,
\* and all zero otherwise; a state at the last stage's dry mass has zero
\* thrust and zero mass flow
C10_OneBurningGate ==
    /\ Len(trajectory) > 1 =>
         \A i \in 1..4 :
           LET stage  == active_stage(mission, points[i].stage_idx)
               cmd    == commands[Len(commands)]
               thrust == f_thrust_body(points[i], mission, cmd)
               torque == tvc_torque(points[i], mission, cmd)
               dmass  == derivatives(points[i], mission, cmd).dmass
           IN  IF remaining_prop(points[i], mission) > 10 /\ stage.thrust > 0
               THEN /\ thrust # <<0, 0, 0>>
                    /\ torque = VCross(<<0, 0, -stage.nozzle_offset>>, thrust)
                    /\ dmass = -Div(stage.thrust * 100, stage.isp * G0)
                    /\ dmass < 0
               ELSE /\ thrust = <<0, 0, 0>>
                    /\ torque = <<0, 0, 0>>
                    /\ dmass = 0
    /\ \A c \in CustomCmds :
         /\ f_thrust_body(AtDryMass(mission), mission, c) = <<0, 0, 0>>
         /\ derivatives(AtDryMass(mission), mission, c).dmass = 0

\* a step with a deflected nozzle that burns at its first evaluation and no
\* longer at its second, the remaining propellant still being positive
C10_Witness ==
    /\ Len(trajectory) > 1
    /\ commands[Len(commands)].gimbal_y # 0
    /\ burning(points[1], mission)
    /\ tvc_torque(points[1], mission, commands[Len(commands)]) # <<0, 0, 0>>
    /\ \E i \in 2..4 :
         /\ remaining_prop(points[i], mission) > 0
         /\ remaining_prop(points[i], mission) <= 10

\* ------------------------------------------------------------------------
\* The clock of the run: time = time + dt in binary floating point
\* ------------------------------------------------------------------------

\* simulate_with's variables while a harness runs
RunnerIdle ==
    /\ mission = Idle /\ config = Idle /\ controller = Idle /\ state = Idle
    /\ launched = Idle /\ trajectory = Idle /\ commands = Idle /\ pc = Idle
    /\ ctl_log = Idle /\ integ = Idle /\ points = Idle

\* significant bits of the floating-point format of the clock harness (f64
\* has 53: the harness keeps its rounding rule and shortens the significand)
FloatBits == 4

RECURSIVE Pow2(_)
Pow2(n) == IF n = 0 THEN 1 ELSE 2 * Pow2(n - 1)

\* the binary exponent e >= 0 at which n >= 0 has at most FloatBits bits
RECURSIVE FExp(_, _)
FExp(n, e) == IF n < Pow2(FloatBits + e) THEN e ELSE FExp(n, e + 1)

\* n >= 0 rounded to the nearest value of FloatBits significant bits, ties to
\* the even significand
FRound(n) ==
    LET u == Pow2(FExp(n, 0))
        q == n \div u
        r == n % u
    IN  IF 2 * r > u \/ (2 * r = u /\ q % 2 = 1) THEN (q + 1) * u ELSE q * u

\* a + b and k * a as the floating-point format gives them
FAdd(a, b) == FRound(a + b)

FMul(k, a) == FRound(k * a)

\* the timesteps and time limits of the clock harness, in units of the
\* format's least significant bit at 1
ClockDts == {3, 5, 6, 7, 8, 9, 10, 11}

ClockMaxTimes == {30, 50, 60}

\* the clock before the loop: time 0.0, the ignition sample's time recorded
ClockInit ==
    /\ RunnerIdle
    /\ pids = Idle /\ pair = Idle /\ probe = Idle
    /\ \E dt \in ClockDts : \E mt \in ClockMaxTimes :
         clock = [dt |-> dt, max_time |-> mt, time |-> 0, times |-> <<0>>, pc |-> "loop"]

\* one iteration: rk4_step returns time: state.time + dt, the sample is pushed
ClockStep ==
    /\ clock.pc = "loop"
    /\ clock.time < clock.max_time
    /\ clock' = [clock EXCEPT !.time = FAdd(clock.time, clock.dt),
                              !.times = Append(clock.times, FAdd(clock.time, clock.dt))]
    /\ UNCHANGED <<runner_vars, pids, pair, probe>>

\* the loop condition fails
ClockExit ==
    /\ clock.pc = "loop"
    /\ ~(clock.time < clock.max_time)
    /\ clock' = [clock EXCEPT !.pc = "done"]
    /\ UNCHANGED <<runner_vars, pids, pair, probe>>

ClockNext == ClockStep \/ ClockExit

SpecClock == ClockInit /\ [][ClockNext]_vars

\* C11: sample k (counted from 0) has time k * dt, and the recorded times
\* are strictly increasing
C11_TimeIsKDt ==
    /\ \A k \in 1..Len(clock.times) : clock.times[k] = FMul(k - 1, clock.dt)
    /\ \A k \in 1..(Len(clock.times) - 1) : clock.times[k] < clock.times[k + 1]

\* ------------------------------------------------------------------------
\* A Pid and a TvcController driven call by call (gnc_mod)
\* ------------------------------------------------------------------------

\* the most update and reset calls made on one instance
MaxCalls == 4

\* Pid::new arguments (kp, ki, kd), in tenths: integral only, proportional
\* only, the gains of TvcController::new, and a negative integral gain
PidGains == { <<0, 10, 0>>, <<20, 0, 0>>, <<20, 1, 5>>, <<5, -10, 2>> }

\* update arguments: error (mrad) and dt (ms)
PidErrors == {-600, 400, 1500}

PidDts == {0, 500, 1000}

\* states a TvcController is called with: at ignition, in the pitchover, and
\* tilted about the body x and y axes
TvcInputs ==
    { Ignition(SingleStage),
      [Ignition(SingleStage) EXCEPT !.time = 5000],
      [Ignition(SingleStage) EXCEPT !.time = 1000, !.quat = <<995, 100, 0, 0>>],
      [Ignition(SingleStage) EXCEPT !.time = 1000, !.quat = <<995, 0, 100, 0>>] }

\* a Pid (or a TvcController) newly constructed, and beside it a twin that
\* is constructed anew whenever the instance is reset
PidsInit ==
    /\ RunnerIdle
    /\ clock = Idle /\ pair = Idle /\ probe = Idle
    /\ \E g \in PidGains : \E mode \in {"pid", "tvc"} :
         pids = [ mode |-> mode,
                  pid |-> Pid_new(g[1], g[2], g[3]), twin |-> Pid_new(g[1], g[2], g[3]),
                  tvc |-> TvcController_new, tvc_twin |-> TvcController_new,
                  n |-> 0, since |-> 0, resets |-> 0, depended |-> FALSE,
                  error |-> 0, dt |-> 0, prev |-> 0,
                  out |-> 0, twin_out |-> 0, solo_out |-> 0,
                  cmd |-> GncCommand_default, twin_cmd |-> GncCommand_default,
                  acc |-> 0, sum |-> 0 ]

\* pid.update(error, dt), and the same call on the twin and on a new Pid;
\* acc is the sum of error * dt limited to +-1.0 after each call, sum the
\* plain sum; depended tells that some call returned what a new Pid would
\* not have returned for it
PidsUpdateWith(error, dt, r, rt, solo) ==
    pids' = [pids EXCEPT !.pid = r.pid, !.twin = rt.pid,
                         !.n = @ + 1, !.since = @ + 1,
                         !.error = error, !.dt = dt, !.prev = pids.pid.prev_error,
                         !.out = r.out, !.twin_out = rt.out, !.solo_out = solo.out,
                         !.depended = @ \/ r.out # solo.out,
                         !.acc = Max(-1000000, Min(@ + error * dt, 1000000)),
                         !.sum = @ + error * dt]

PidsUpdate ==
    /\ pids.mode = "pid"
    /\ pids.n < MaxCalls
    /\ \E error \in PidErrors : \E dt \in PidDts :
         PidsUpdateWith(error, dt, Pid_update(pids.pid, error, dt),
                        Pid_update(pids.twin, error, dt),
                        Pid_update(Pid_new(pids.pid.kp, pids.pid.ki, pids.pid.kd), error, dt))
    /\ UNCHANGED <<runner_vars, clock, pair, probe>>

\* pid.reset(); the twin is replaced by a new Pid of the same gains
PidsReset ==
    /\ pids.mode = "pid"
    /\ pids.n < MaxCalls
    /\ pids' = [pids EXCEPT !.pid = Pid_reset(pids.pid),
                            !.twin = Pid_new(pids.pid.kp, pids.pid.ki, pids.pid.kd),
                            !.n = @ + 1, !.since = 0, !.resets = @ + 1,
                            !.acc = 0, !.sum = 0]
    /\ UNCHANGED <<runner_vars, clock, pair, probe>>

\* tvc.update(state, mission, dt), and the same call on the twin
TvcUpdateWith(r, rt) ==
    pids' = [pids EXCEPT !.tvc = r.ctl, !.tvc_twin = rt.ctl,
                         !.n = @ + 1, !.since = @ + 1,
                         !.cmd = r.cmd, !.twin_cmd = rt.cmd]

TvcUpdate ==
    /\ pids.mode = "tvc"
    /\ pids.n < MaxCalls
    /\ \E s \in TvcInputs : \E dt \in {500, 1000} :
         TvcUpdateWith(TvcController_update(pids.tvc, s, dt),
                       TvcController_update(pids.tvc_twin, s, dt))
    /\ UNCHANGED <<runner_vars, clock, pair, probe>>

\* tvc.reset(); the twin is replaced by TvcController::new()
TvcReset ==
    /\ pids.mode = "tvc"
    /\ pids.n < MaxCalls
    /\ pids' = [pids EXCEPT !.tvc = TvcController_reset(pids.tvc),
                            !.tvc_twin = TvcController_new,
                            !.n = @ + 1, !.since = 0, !.resets = @ + 1]
    /\ UNCHANGED <<runner_vars, clock, pair, probe>>

PidsNext == PidsUpdate \/ PidsReset \/ TvcUpdate \/ TvcReset

SpecPid == PidsInit /\ [][PidsNext]_vars

\* the Pid of the harness has only an integral gain, of 1.0
IntegralOnly ==
    pids.mode = "pid" /\ pids.pid.kp = 0 /\ pids.pid.kd = 0 /\ pids.pid.ki = 10

\* C12 as stated: an integral-only Pid returns ki times the sum of
\* error * dt over all calls so far, limited to +-1.0
C12_SumThenClamp ==
    (IntegralOnly /\ pids.since > 0) =>
      10000 * pids.out = pids.pid.ki * Max(-1000000, Min(pids.sum, 1000000))

\* C12, amended: an integral-only Pid returns ki times the accumulator, which
\* each call increases by error * dt and then limits to +-1.0
C12_ClampEachCall ==
    (IntegralOnly /\ pids.since > 0) => 10000 * pids.out = pids.pid.ki * pids.acc

\* an integral-only Pid that was limited and then came back: the
\* accumulator is not the limited sum
C12_Witness ==
    /\ IntegralOnly
    /\ pids.since > 1
    /\ pids.sum > 1000000
    /\ pids.acc < 1000000
    /\ pids.out > 0

\* C13: the integral accumulator of every Pid is within +-1.0 after any
\* calls, and the integral term of the output within +-|ki|
C13_IntegralBounded ==
    /\ \A p \in {pids.pid, pids.tvc.pitch_pid, pids.tvc.yaw_pid} :
         /\ p.integral >= -1000000 /\ p.integral <= 1000000
         /\ Abs(Div(p.ki * p.integral, 1000)) <= Abs(p.ki) * 1000
    /\ pids.since > 0 =>
         LET i_term == 10 * pids.out - pids.pid.kp * pids.error
                         - pids.pid.kd * (IF pids.dt > 0
                                          THEN Div((pids.error - pids.prev) * 1000, pids.dt)
                                          ELSE 0)
         IN  i_term >= -Abs(pids.pid.ki) * 1000 - 9 /\ i_term <= Abs(pids.pid.ki) * 1000 + 9

\* a Pid whose errors summed to more than 1.0 and whose accumulator is 1.0
C13_Witness ==
    /\ pids.mode = "pid"
    /\ pids.resets > 0
    /\ pids.sum > 1000000
    /\ pids.pid.integral = 1000000

\* C14: a Pid with ki = kd = 0 returns kp * error
C14_Proportional ==
    (pids.mode = "pid" /\ pids.pid.ki = 0 /\ pids.pid.kd = 0 /\ pids.since > 0)
      => 10 * pids.out = pids.pid.kp * pids.error

\* a proportional Pid called with dt = 0 after other calls with other errors
C14_Witness ==
    /\ pids.mode = "pid" /\ pids.pid.ki = 0 /\ pids.pid.kd = 0 /\ pids.pid.kp # 0
    /\ pids.since > 1
    /\ pids.dt = 0
    /\ pids.prev # pids.error
    /\ pids.pid.integral # 0

\* C15: an instance that has been reset is in the state of a new one, and
\* its outputs are those of a new instance given the same calls since; the
\* first call on a new or reset Pid returns what a new Pid returns
C15_ResetIsNew ==
    /\ pids.pid = pids.twin
    /\ pids.out = pids.twin_out
    /\ pids.tvc = pids.tvc_twin
    /\ pids.cmd = pids.twin_cmd
    /\ (pids.mode = "pid" /\ pids.since = 1) => pids.out = pids.solo_out

\* with C15, of the run: simulate_with calls the controller it is given and
\* never resets it; each call finds the TvcController as the call before
\* left it
ControllerPersists ==
    (pc # Idle /\ controller.kind = "tvc") =>
      /\ \A k \in 1..(Len(ctl_log) - 1) :
           ctl_log[k + 1].ctl.tvc
             = TvcController_update(ctl_log[k].ctl.tvc, ctl_log[k].input, config.dt).ctl
      /\ Len(ctl_log) > 0 =>
           /\ ctl_log[1].ctl.tvc = TvcController_new
           /\ controller.tvc
                = TvcController_update(ctl_log[Len(ctl_log)].ctl.tvc,
                                       ctl_log[Len(ctl_log)].input, config.dt).ctl

\* a Pid whose output depended on its earlier calls, then reset and called
C15_Witness ==
    /\ pids.mode = "pid"
    /\ pids.depended
    /\ pids.resets = 1
    /\ pids.since = 1
    /\ pids.n = 4
    /\ pids.out # 0

\* ------------------------------------------------------------------------
\* Two runs of simulate_with, interleaved at their outer steps

\* iterations a run of this part may make
PairSteps == 8

\* the time step of the runs of this part: the pitch program starts at
\* 2 s, so that the later steps command a gimbal angle
PairDt == 500

PairConfig == [dt |-> PairDt, max_time |-> PairSteps * PairDt - Div(PairDt, 2)]

\* simulate_with before its loop: the state at ignition, the two output
\* sequences with the ignition sample and the default command
Run_new(m, cfg) ==
    [ mission |-> m, config |-> cfg, state |-> Ignition(m), launched |-> FALSE,
      trajectory |-> << Ignition(m) >>, commands |-> << GncCommand_default >>,
      pc |-> "loop" ]

\* the end of an iteration whose step is finite: the launched flag, the
\* ground test, the two pushes
RunPush(run, cmd, s) ==
    IF Launched(run.launched, s) /\ s.pos[3] <= 0
    THEN [ run EXCEPT !.state = [s EXCEPT !.pos = <<s.pos[1], s.pos[2], 0>>],
                      !.launched = TRUE,
                      !.trajectory = Append(run.trajectory,
                                            [s EXCEPT !.pos = <<s.pos[1], s.pos[2], 0>>]),
                      !.commands = Append(run.commands, cmd),
                      !.pc = "done" ]
    ELSE [ run EXCEPT !.state = s,
                      !.launched = Launched(run.launched, s),
                      !.trajectory = Append(run.trajectory, s),
                      !.commands = Append(run.commands, cmd) ]

\* the end of an iteration that divided by a zero mass: the sample keeps
\* its time, mass and stage index, and the run is not followed further
RunNonFinite(run, cmd, s) ==
    [ run EXCEPT !.state = [time |-> s.time, pos |-> NotFollowed, vel |-> NotFollowed,
                            quat |-> NotFollowed, omega |-> NotFollowed,
                            mass |-> s.mass, stage_idx |-> s.stage_idx],
                 !.trajectory = Append(run.trajectory,
                                       [time |-> s.time, pos |-> NotFollowed,
                                        vel |-> NotFollowed, quat |-> NotFollowed,
                                        omega |-> NotFollowed,
                                        mass |-> s.mass, stage_idx |-> s.stage_idx]),
                 !.commands = Append(run.commands, cmd),
                 !.pc = "nonfinite" ]

\* the loop body after the controller's call: rk4_step, check_staging, then
\* the end of the iteration
RunOn(run, cmd, p, i) ==
    IF points_finite(p, run.mission)
    THEN RunPush(run, cmd, check_staging(i, run.mission))
    ELSE RunNonFinite(run, cmd, check_staging(i, run.mission))

RunFrom(run, cmd, p) == RunOn(run, cmd, p, rk4_from(p, run.mission, cmd, run.config.dt))

RunIteration(run, cmd) ==
    RunFrom(run, cmd, rk4_points(run.state, run.mission, cmd, run.config.dt))

\* one iteration of the loop with the controller it is given: the run and
\* the controller after it
RunWith(run, r) == [run |-> RunIteration(run, r.cmd), ctl |-> r.ctl]

RunStep(run, ctl) == RunWith(run, TvcController_update(ctl, run.state, run.config.dt))

\* the loop condition
RunLoops(run) == run.pc = "loop" /\ run.state.time < run.config.max_time

\* a variant in which every run calls the controller of run a (C16 must
\* tell it apart)
ControllerSlot_always_a(mode, who) == "a"

\* a variant in which every run calls the controller of run b (C17 must
\* tell it apart)
ControllerSlot_always_b(mode, who) == "b"

\* the controller instance a run calls: its own, or the one instance the
\* caller handed to both runs
ControllerSlot(mode, who) == IF mode = "shared" THEN "a" ELSE who

Runs == {"a", "b"}

PairInit ==
    /\ RunnerIdle
    /\ clock = Idle /\ pids = Idle /\ probe = Idle
    /\ \E mode \in {"own", "shared"} : \E ma \in Missions : \E mb \in Missions :
         pair = [ mode |-> mode,
                  run  |-> [a |-> Run_new(ma, PairConfig), b |-> Run_new(mb, PairConfig)],
                  ctl  |-> [a |-> TvcController_new, b |-> TvcController_new],
                  call |-> [who |-> "none", ctl |-> TvcController_new,
                            input |-> Ignition(ma), out |-> TvcController_new,
                            cmd |-> GncCommand_default] ]

\* the run's iteration is stored with the controller it called
PairPut(who, slot, res) ==
    /\ pair' = [ pair EXCEPT !.run[who] = res.run,
                             !.ctl[slot] = res.ctl,
                             !.call = [who |-> who, ctl |-> pair.ctl[slot],
                                       input |-> pair.run[who].state,
                                       out |-> res.ctl,
                                       cmd |-> res.run.commands[Len(res.run.commands)]] ]
    /\ UNCHANGED <<runner_vars, clock, pids, probe>>

\* the run may call its controller: the controller is borrowed `&mut` for
\* the whole of simulate_with, so that a caller with one instance runs b
\* after a has returned
Borrowable(who) == pair.mode = "shared" /\ who = "b" => pair.run.a.pc # "loop"

\* one run makes one iteration of its loop
PairStep(who) ==
    /\ RunLoops(pair.run[who])
    /\ Borrowable(who)
    /\ PairPut(who, ControllerSlot(pair.mode, who),
               RunStep(pair.run[who], pair.ctl[ControllerSlot(pair.mode, who)]))

\* one run finds its loop condition false and returns
PairExit(who) ==
    /\ pair.run[who].pc = "loop"
    /\ ~RunLoops(pair.run[who])
    /\ Borrowable(who)
    /\ pair' = [pair EXCEPT !.run[who].pc = "done"]
    /\ UNCHANGED <<runner_vars, clock, pids, probe>>

PairNext == \E who \in Runs : PairStep(who) \/ PairExit(who)

SpecPair == PairInit /\ [][PairNext]_vars

\* the next iteration of a run executed alone, if its loop goes on
SoloNext(prev) == IF RunLoops(prev.run) THEN RunStep(prev.run, prev.ctl) ELSE prev

\* simulate: simulate_with executed alone with a new TvcController, after
\* k iterations
RECURSIVE SoloRun(_, _, _)
SoloRun(m, cfg, k) ==
    IF k = 0
    THEN [run |-> Run_new(m, cfg), ctl |-> TvcController_new]
    ELSE SoloNext(SoloRun(m, cfg, k - 1))

\* the iterations a run has made
Made(run) == Len(run.trajectory) - 1

\* the run has the trajectory and the commands of the run `solo`
SameOutput(run, solo) ==
    /\ run.trajectory = solo.trajectory
    /\ run.commands = solo.commands

\* the run has the trajectory and the commands of the same mission and
\* configuration executed alone
AsAlone(run) == SameOutput(run, SoloRun(run.mission, run.config, Made(run)).run)

\* states a Pid of the other axis might be in
OtherPids ==
    { Pid_new(20, 1, 5),
      [Pid_new(20, 1, 5) EXCEPT !.integral = 500000, !.prev_error = 300],
      [Pid_new(20, 1, 5) EXCEPT !.integral = -1000000, !.prev_error = -40] }

\* the pitch result of a controller call does not depend on the yaw Pid,
\* nor the yaw result on the pitch Pid
AxesApart(ctl, input, dt, res) ==
    /\ \A o \in OtherPids :
         /\ TvcController_update([ctl EXCEPT !.yaw_pid = o], input, dt).cmd.gimbal_y
               = res.cmd.gimbal_y
         /\ TvcController_update([ctl EXCEPT !.yaw_pid = o], input, dt).ctl.pitch_pid
               = res.ctl.pitch_pid
    /\ \A o \in OtherPids :
         /\ TvcController_update([ctl EXCEPT !.pitch_pid = o], input, dt).cmd.gimbal_z
               = res.cmd.gimbal_z
         /\ TvcController_update([ctl EXCEPT !.pitch_pid = o], input, dt).ctl.yaw_pid
               = res.ctl.yaw_pid

\* C16: two runs that each own a controller constructed for them are
\* isolated under every interleaving of their outer steps: each has the
\* trajectory and the command history it has when executed alone; and in
\* every controller call of a run the pitch result is independent of the
\* yaw Pid's state and the yaw result of the pitch Pid's state
C16_RunsIsolated ==
    /\ pair.mode = "own" => \A who \in Runs : AsAlone(pair.run[who])
    /\ pair.call.who \in Runs =>
          AxesApart(pair.call.ctl, pair.call.input, PairDt,
                    [ctl |-> pair.call.out, cmd |-> pair.call.cmd])

\* both runs own a controller, one is ahead of the other, and both have
\* been commanded a gimbal angle
C16_Witness ==
    /\ pair.mode = "own"
    /\ Made(pair.run.a) = PairSteps
    /\ Made(pair.run.b) = PairSteps - 1
    /\ pair.call.who = "b"
    /\ pair.run.a.commands[PairSteps + 1].gimbal_y # 0
    /\ pair.run.b.commands[PairSteps].gimbal_y # 0

\* with one controller instance handed to both runs, a run differs from
\* the same run executed alone
SharedControllerDiffers ==
    /\ pair.mode = "shared"
    /\ \E who \in Runs : ~AsAlone(pair.run[who])

TwoStageShort ==
    [stages |-> << Stage(1000, 490, 100000, 20, 300, 100), Stage(100, 120, 5000, 40, 0, 80) >>]

\* a single-stage vehicle with a thrust-to-weight ratio of 1.26 and 20 g of
\* propellant
Hopper == [stages |-> << Stage(2000, 20, 25000, 25, 300, 100) >>]

\* the booster of TwoStage under a sustainer that has drag
TwoStageDrag ==
    [stages |-> << Stage(1000, 539, 100000, 20, 300, 100), Stage(100, 120, 5000, 40, 300, 80) >>]

\* a booster, a second stage without thrust that holds 20 g of propellant,
\* and a sustainer
DeadMiddle ==
    [stages |-> << Stage(1000, 539, 100000, 20, 300, 100),
                   Stage(50, 20, 0, 40, 0, 80),
                   Stage(100, 120, 5000, 40, 0, 80) >>]

LiveMissions == Missions \cup {TwoStageShort, Hopper, TwoStageDrag, DeadMiddle}

\* a max_time by which the single-stage vehicles that lift off are down again
LongTime == 4250

\* the configurations of these runs; the long ones are followed with the
\* TvcController of simulate, and with the caller's commands where the
\* sustainer has drag
LiveConfigs ==
    { [dt |-> dt, max_time |-> mt] : dt \in Dts, mt \in {0, 1000, LongTime} }
      \cup { [dt |-> 1000, max_time |-> MaxSteps * 1000 - 500] }

InitLive ==
    /\ mission \in LiveMissions
    /\ config \in LiveConfigs
    /\ controller \in { [kind |-> "tvc", tvc |-> TvcController_new],
                        [kind |-> "custom", tvc |-> TvcController_new] }
    /\ controller.kind = "custom" =>
          config.max_time <= 1000 \/ (mission = TwoStageDrag /\ config.dt = 1000)
    /\ state = Ignition(mission)
    /\ launched = FALSE
    /\ trajectory = << Ignition(mission) >>
    /\ commands = << GncCommand_default >>
    /\ pc = "loop"
    /\ ctl_log = << >>
    /\ integ = Ignition(mission)
    /\ points = << >>
    /\ clock = Idle /\ pids = Idle /\ pair = Idle /\ probe = Idle

\* what every step of Next does to pc and commands: the return sets pc and
\* leaves the commands, an iteration pushes one command
Proceed ==
    /\ pc = "loop"
    /\ \/ pc' = "done" /\ commands' = commands
       \/ pc' \in {"loop", "done", "nonfinite"} /\ Len(commands') = Len(commands) + 1

\* the loop is synchronous code: while it has not returned, its next step
\* is taken.  Next is enabled exactly when pc = "loop", and its steps are
\* the steps of Proceed that the run can take
SpecLive == InitLive /\ [][Next]_vars /\ WF_<<pc, commands>>(Proceed)

\* Stage::burn_time is shorter than max_time (burn_time is
\* propellant_mass / mass_flow for a stage with thrust)
BurnsOutInTime ==
    /\ mission.stages[1].thrust > 0
    /\ config.max_time * mass_flow(mission.stages[1])
         > mission.stages[1].propellant_mass * 1000

\* some recorded sample has the second stage active
StageOneRecorded == \E k \in 1..Len(trajectory) : trajectory[k].stage_idx = 1

\* C18: a two-stage mission whose first stage has thrust and whose
\* max_time is longer than the first stage's burn time eventually records
\* a sample with active stage index 1
C18_StagingOccurs ==
    (NStages = 2 /\ BurnsOutInTime)
        => <>StageOneRecorded

\* thrust over weight at ignition is above 1
LiftsOff ==
    /\ mission.stages[1].thrust > 0
    /\ mission.stages[1].thrust * 100 > mission_total_mass(mission) * G0

\* the run has ended by ground impact: launched, returned, altitude clamped
EndedByImpact == pc = "done" /\ launched /\ LastSample.pos[3] <= 1

ZeroMass(s, m) == has_active_stage(m, s.stage_idx) /\ s.mass = 0

\* at a state of mass 0 the only force left is drag; with drag along all
\* three axes every component of the acceleration is infinite (a zero
\* component gives 0/0, NaN)
DragOnAllAxes(s, m) ==
    /\ active_stage(m, s.stage_idx).cd > 0
    /\ active_stage(m, s.stage_idx).area > 0
    /\ s.vel[1] # 0 /\ s.vel[2] # 0 /\ s.vel[3] # 0

\* the quaternion rk4_step returns is NaN: the first of the four points with
\* mass 0 is the first or the second and its acceleration is infinite on all
\* axes, so that the next point has an infinite speed and infinite
\* aerodynamic torques, the point after it a non-finite omega, and its dquat
\* enters the combination.  (A speed that is NaN fails the `speed > 1.0`
\* tests and the torques stay finite.)
QuatNaN(p, m) ==
    \E i \in 1..2 :
        /\ ZeroMass(p[i], m)
        /\ \A j \in 1..(i - 1) : ~ZeroMass(p[j], m)
        /\ DragOnAllAxes(p[i], m)

\* C20: the attitude quaternion of every recorded sample has norm 1 (here to
\* the resolution of the model, 2/1000; 1e-6 in the source), and staging
\* and the ground clamp leave the quaternion rk4_step returned
C20_QuaternionUnit ==
    /\ \A k \in 1..FiniteLen : Abs(QNorm(trajectory[k].quat) - 1000) <= 2
    /\ pc = "nonfinite" => ~QuatNaN(points, mission)
    /\ (pc # "nonfinite" /\ Len(trajectory) > 1) => LastSample.quat = integ.quat

\* ------------------------------------------------------------------------
\* derivatives called on single states (dynamics/sixdof.rs)
\* ------------------------------------------------------------------------

\* one stage holding 5 g of propellant, thrust-to-weight 3
LowPropellant == [stages |-> << Stage(2000, 5, 60000, 25, 300, 100) >>]

\* the missions derivatives is called with
ProbeMissions == {SingleStage, TwoStage, Hopper, LowPropellant}

\* the states derivatives is called on: the ignition state, and states in
\* flight with every stage index up to one past the mission's stages
ProbeStates(m) ==
    {Ignition(m)} \cup
    { [ time |-> 1000, pos |-> <<0, 0, z>>, vel |-> v, quat |-> QIdentity,
        omega |-> w, mass |-> ms, stage_idx |-> i ] :
        z \in {-500, 100000}, v \in {VZero, <<1000, 0, 3000>>},
        w \in {VZero, <<100, 0, 50>>},
        ms \in {mission_total_mass(m), m.stages[Len(m.stages)].dry_mass},
        i \in 0..3 }

\* a caller has chosen the arguments of one call
DerivInit ==
    /\ RunnerIdle
    /\ clock = Idle /\ pids = Idle /\ pair = Idle
    /\ \E m \in ProbeMissions : \E s \in ProbeStates(m) : \E c \in CustomCmds :
         probe = [ mission |-> m, state |-> s, cmd |-> c, called |-> FALSE,
                   out |-> zero_deriv(s) ]

\* derivatives(&state, &mission, &cmd)
DerivCall ==
    /\ ~probe.called
    /\ probe' = [probe EXCEPT !.called = TRUE,
                              !.out = derivatives(probe.state, probe.mission, probe.cmd)]
    /\ UNCHANGED <<runner_vars, clock, pids, pair>>

SpecDeriv == DerivInit /\ [][DerivCall]_vars

\* the call was made at the ignition state of the mission with the default
\* command
AtIgnition ==
    /\ probe.called
    /\ probe.state = Ignition(probe.mission)
    /\ probe.cmd = GncCommand_default

\* thrust exceeds the weight of the wet vehicle: thrust (mN) against mass
\* (10 g) times g0 (cm/s2)
ProbeTwr == probe.mission.stages[1].thrust * 100 > mission_total_mass(probe.mission) * G0

\* C21: for every single-stage mission whose thrust exceeds its wet weight,
\* derivatives at the ignition state with the default command gives a
\* strictly positive vertical acceleration
C21_NetUpwardOnPad ==
    (AtIgnition /\ Len(probe.mission.stages) = 1 /\ ProbeTwr) => probe.out.dvel[3] > 0

\* the call was made with a stage index past the mission's last stage
PastLastStage ==
    /\ probe.called
    /\ probe.state.stage_idx >= Len(probe.mission.stages)

\* C22: derivatives with a stage index past the last stage returns
\* gravity-only free fall: dpos is the velocity, dvel is (0, 0, -g) with g
\* taken at the altitude (at 0 below ground), the quaternion rate, the angular
\* acceleration and the mass flow are zero, whatever the command
C22_FreeFallPastLastStage ==
    PastLastStage =>
        /\ probe.out.dpos = probe.state.vel
        /\ probe.out.dvel = <<0, 0, -gravity_g(Max(probe.state.pos[3], 0))>>
        /\ probe.out.dquat = <<0, 0, 0, 0>>
        /\ probe.out.domega = VZero
        /\ probe.out.dmass = 0
        /\ \A c \in CustomCmds : derivatives(probe.state, probe.mission, c) = probe.out

\* a call two stages past the last one, on a state high up that moves and
\* spins, with a gimbal command
C22_Witness ==
    /\ PastLastStage
    /\ probe.state.stage_idx > Len(probe.mission.stages)
    /\ probe.state.pos[3] > 0
    /\ probe.out.dvel[3] > -G0
    /\ probe.state.vel # VZero
    /\ probe.state.omega # VZero
    /\ probe.cmd # GncCommand_default

\* ------------------------------------------------------------------------
\* guidance_pitch called along a flight (gnc_mod/guidance.rs)
\* ------------------------------------------------------------------------

\* the time after which guidance_pitch is no longer called, ms
GuideEnd == 17000

\* the time between two calls, ms
GuideDts == {500, 1500}

\* the velocities of the states: at rest, slower than 5 m/s, vertical,
\* climbing at 45 degrees, descending
GuideVels == { VZero, <<0, 0, 400>>, <<0, 0, 20000>>, <<10000, 0, 10000>>,
               <<3000, 0, -4000>> }

GuideState(t, v) ==
    [ time |-> t, pos |-> VZero, vel |-> v, quat |-> QIdentity, omega |-> VZero,
      mass |-> 3000, stage_idx |-> 0 ]

\* the state of the first call; prev is the call before the last one, once
\* there is one
GuideInit ==
    /\ RunnerIdle
    /\ clock = Idle /\ pids = Idle /\ pair = Idle
    /\ \E v \in GuideVels :
         probe = [ state |-> GuideState(0, v), called |-> FALSE, out |-> 0,
                   has_prev |-> FALSE, prev |-> [time |-> 0, out |-> 0] ]

\* guidance_pitch(&state, mission)
GuideCall ==
    /\ ~probe.called
    /\ probe' = [probe EXCEPT !.called = TRUE, !.out = guidance_pitch(probe.state)]
    /\ UNCHANGED <<runner_vars, clock, pids, pair>>

\* the flight goes on: the next call is on a later state
GuideAdvance ==
    /\ probe.called
    /\ probe.state.time < GuideEnd
    /\ \E dt \in GuideDts : \E v \in GuideVels :
         probe' = [ state |-> GuideState(probe.state.time + dt, v), called |-> FALSE,
                    out |-> probe.out, has_prev |-> TRUE,
                    prev |-> [time |-> probe.state.time, out |-> probe.out] ]
    /\ UNCHANGED <<runner_vars, clock, pids, pair>>

GuideNext == GuideCall \/ GuideAdvance

SpecGuide == GuideInit /\ [][GuideNext]_vars

\* the phase of the pitch program at a time: 1 vertical ascent, 2 pitchover,
\* 3 gravity turn
GuidePhase(t) == IF t < 2000 THEN 1 ELSE IF t < 15000 THEN 2 ELSE 3

\* the pitch (mrad) is on the line from 90 degrees at 2 s to 45 degrees at
\* 15 s, to the model's resolution of 1 mrad
OnPitchoverLine(t, p) ==
    Abs(p * 13000 - (1571 * 13000 - (t - 2000) * (1571 - 785))) <= 13000

\* C23: the commanded pitch is 90 degrees before 2 s; from 2 s to 15 s it
\* falls linearly from 90 to 45 degrees and stays within [45, 90]; from 15 s
\* it is asin(vertical velocity / speed) when the speed exceeds 5 m/s and 45
\* degrees otherwise; the phase is chosen by the time alone, and along a
\* flight the phases come in this order and never come back
C23_ThreePhaseProgram ==
    probe.called =>
        LET t     == probe.state.time
            v     == probe.state.vel
            speed == VNorm(v)
        IN  /\ GuidePhase(t) = 1 => probe.out = 1571
            /\ GuidePhase(t) = 2 =>
                 /\ OnPitchoverLine(t, probe.out)
                 /\ probe.out >= 785 /\ probe.out <= 1571
                 /\ t = 2000 => probe.out = 1571
            /\ GuidePhase(t) = 3 =>
                 probe.out = IF speed > 500 THEN Asin(Div(v[3] * 1000, speed)) ELSE 785
            /\ probe.has_prev =>
                 /\ GuidePhase(probe.prev.time) <= GuidePhase(t)
                 /\ (GuidePhase(probe.prev.time) = 2 /\ GuidePhase(t) = 2)
                      => probe.out < probe.prev.out

\* a call in the gravity turn on a descending state, after a call in the
\* pitchover
C23_Witness ==
    /\ probe.called /\ probe.has_prev
    /\ GuidePhase(probe.prev.time) = 2
    /\ GuidePhase(probe.state.time) = 3
    /\ probe.prev.out > 785 /\ probe.prev.out < 1571
    /\ probe.out < 0

\* ------------------------------------------------------------------------
\* AltitudeDetector (sim/event.rs)
\* ------------------------------------------------------------------------

\* AltitudeDetector::new
AltitudeDetector_new(altitude, ascending) ==
    [altitude |-> altitude, ascending |-> ascending, fired |-> FALSE]

\* a variant that does not remember that it fired (C24 must tell it apart)
AltitudeDetector_check_rearms(det, prev, current) ==
    IF det.fired THEN [det |-> det, out |-> "None"]
    ELSE LET crossed == IF det.ascending
                        THEN prev.pos[3] < det.altitude /\ current.pos[3] >= det.altitude
                        ELSE prev.pos[3] > det.altitude /\ current.pos[3] <= det.altitude
         IN  IF crossed THEN [det |-> det, out |-> "Custom"]
             ELSE [det |-> det, out |-> "None"]

\* AltitudeDetector::check: the detector after the call and the Option
\* returned (Some(EventKind::Custom(..)) or None)
AltitudeDetector_check(det, prev, current) ==
    IF det.fired THEN [det |-> det, out |-> "None"]
    ELSE LET crossed == IF det.ascending
                        THEN prev.pos[3] < det.altitude /\ current.pos[3] >= det.altitude
                        ELSE prev.pos[3] > det.altitude /\ current.pos[3] <= det.altitude
         IN  IF crossed THEN [det |-> [det EXCEPT !.fired = TRUE], out |-> "Custom"]
             ELSE [det |-> det, out |-> "None"]

\* the number of check calls made on a detector
MaxChecks == 3

\* the altitudes of the states handed to check, cm: below, at and above the
\* detector's 1000 m
DetectAlts == {90000, 100000, 105000}

\* a state at an altitude, as the tests of the module build it
make_state(alt, vz) ==
    [ time |-> 0, pos |-> <<0, 0, alt>>, vel |-> <<0, 0, vz>>, quat |-> QIdentity,
      omega |-> VZero, mass |-> 10000, stage_idx |-> 0 ]

\* a new detector, ascending or descending, and no call yet
DetectInit ==
    /\ RunnerIdle
    /\ clock = Idle /\ pids = Idle /\ pair = Idle
    /\ \E asc \in BOOLEAN :
         probe = [det |-> AltitudeDetector_new(100000, asc), log |-> << >>]

\* the detector after a call, and the call with its result added to the log
DetectPut(a, b, r) ==
    probe' = [det |-> r.det, log |-> Append(probe.log, [prev |-> a, current |-> b, out |-> r.out])]

\* det.check(&prev, &current)
DetectCheck ==
    /\ Len(probe.log) < MaxChecks
    /\ \E a \in DetectAlts : \E b \in DetectAlts :
         DetectPut(a, b, AltitudeDetector_check(probe.det, make_state(a, 0), make_state(b, 0)))
    /\ UNCHANGED <<runner_vars, clock, pids, pair>>

SpecDetect == DetectInit /\ [][DetectCheck]_vars

\* the altitude of the detector lies between the two altitudes of a logged
\* call, in the detector's direction
Crossed(c) ==
    IF probe.det.ascending
    THEN c.prev < probe.det.altitude /\ probe.det.altitude <= c.current
    ELSE c.prev > probe.det.altitude /\ probe.det.altitude >= c.current

\* C24: over any sequence of check calls on one AltitudeDetector, the first
\* call whose altitudes cross the threshold in the configured direction
\* returns an event and every other call returns None, crossing or not: the
\* detector fires at most once
C24_FiresAtMostOnce ==
    /\ \A k \in 1..Len(probe.log) :
         probe.log[k].out = "Custom"
             <=> (Crossed(probe.log[k]) /\ \A j \in 1..(k - 1) : ~Crossed(probe.log[j]))
    /\ Cardinality({k \in 1..Len(probe.log) : probe.log[k].out = "Custom"}) <= 1

\* a call that does not cross, a crossing that fires, and a second crossing
\* that returns None
C24_Witness ==
    /\ Len(probe.log) = 3
    /\ ~Crossed(probe.log[1]) /\ probe.log[1].out = "None"
    /\ Crossed(probe.log[2]) /\ probe.log[2].out = "Custom"
    /\ Crossed(probe.log[3]) /\ probe.log[3].out = "None"

\* ceil(a / b) for a >= 0, b > 0
CeilDiv(a, b) == (a + b - 1) \div b

\* C25: the loop of simulate_with takes at most ceil(max_time / dt) steps and
\* records at most ceil(max_time / dt) + 1 samples, of which every one but
\* the last has a time below max_time
C25_StepBound ==
    /\ Len(clock.times) - 1 <= CeilDiv(clock.max_time, clock.dt)
    /\ \A k \in 1..(Len(clock.times) - 1) : clock.times[k] < clock.max_time

\* ------------------------------------------------------------------------
\* Who writes which field of the state (sim/runner.rs, sim/integrator.rs)
\* ------------------------------------------------------------------------

\* a step has been taken and its numbers are followed
StepTaken == Len(trajectory) > 1 /\ pc # "nonfinite"

\* rk4_step and State::apply leave the stage index alone: the four points of
\* the last step and the state rk4_step returned carry the stage index of the
\* sample the step started from
IntegratorKeepsStage ==
    Len(trajectory) > 1 =>
        /\ \A i \in 1..4 : points[i].stage_idx = trajectory[Len(trajectory) - 1].stage_idx
        /\ integ.stage_idx = trajectory[Len(trajectory) - 1].stage_idx

\* the fields other than mass, stage index and altitude are recorded as
\* rk4_step returned them
StagingKeepsMotion ==
    /\ Len(trajectory) > 1 => LastSample.time = integ.time
    /\ StepTaken =>
        /\ LastSample.pos[1] = integ.pos[1] /\ LastSample.pos[2] = integ.pos[2]
        /\ LastSample.vel = integ.vel
        /\ LastSample.quat = integ.quat
        /\ LastSample.omega = integ.omega

\* the last sample is the clamped one of a ground impact
ClampedSample ==
    /\ StepTaken /\ pc = "done" /\ launched
    /\ integ.pos[3] <= 0 /\ LastSample.pos[3] = 0

\* C26 as stated: only rk4_step and check_staging write the state; rk4_step
\* never changes the stage index, and check_staging changes mass and stage
\* index only, so every recorded sample has time, position, velocity,
\* attitude and angular velocity as rk4_step returned them
C26_TwoWriters ==
    /\ IntegratorKeepsStage
    /\ StagingKeepsMotion
    /\ StepTaken => LastSample.pos[3] = integ.pos[3]

\* C26, amended: as above, except that the runner itself writes the altitude
\* of the sample of a ground impact, setting it to 0
C26_TwoWritersAndClamp ==
    /\ IntegratorKeepsStage
    /\ StagingKeepsMotion
    /\ StepTaken => (LastSample.pos[3] = integ.pos[3] \/ ClampedSample)

\* a step in which check_staging jettisoned a stage of a spinning vehicle
C26_Witness ==
    /\ StepTaken
    /\ LastSample.stage_idx = integ.stage_idx + 1
    /\ LastSample.mass < integ.mass
    /\ integ.omega # VZero

\* ------------------------------------------------------------------------
\* Staging along a run (sim/runner.rs)
\* ------------------------------------------------------------------------

\* sample k is the first of its stage, and that stage is already empty and
\* not the last
ActivatedEmpty(k) ==
    /\ k > 1
    /\ trajectory[k].stage_idx = trajectory[k - 1].stage_idx + 1
    /\ trajectory[k].stage_idx + 1 < NStages
    /\ SampleRemaining(k) <= 10

\* C27: the stage index of consecutive samples differs by 0 or 1: a step
\* jettisons at most one stage, and a stage that is already empty when it
\* becomes active is jettisoned on the following step
C27_OneStagePerStep ==
    \A k \in 1..(Len(trajectory) - 1) :
        /\ trajectory[k + 1].stage_idx - trajectory[k].stage_idx \in {0, 1}
        /\ ActivatedEmpty(k) => trajectory[k + 1].stage_idx = trajectory[k].stage_idx + 1

\* three consecutive samples on stages 0, 1, 2, the second stage empty when
\* it was activated
C27_Witness ==
    \E k \in 2..(Len(trajectory) - 1) :
        /\ ActivatedEmpty(k)
        /\ trajectory[k - 1].stage_idx = 0
        /\ trajectory[k + 1].stage_idx = 2

\* C28: in a run over a mission with at least one stage, every state handed
\* to derivatives and to check_staging has a stage index below the number of
\* stages: derivatives never takes its gravity-only branch, and the slice of
\* the stages above the active one starts within the stage list
C28_StageIndexInRange ==
    NStages >= 1 =>
        /\ \A k \in 1..Len(trajectory) : trajectory[k].stage_idx < NStages
        /\ Len(trajectory) > 1 =>
             /\ \A i \in 1..4 :
                  /\ has_active_stage(mission, points[i].stage_idx)
                  /\ points[i].stage_idx + 1 <= NStages
             /\ integ.stage_idx < NStages

\* a step taken on the last of several stages after its propellant was
\* exhausted
C28_Witness ==
    /\ NStages >= 2
    /\ Len(trajectory) > 2
    /\ trajectory[Len(trajectory) - 1].stage_idx = NStages - 1
    /\ SampleRemaining(Len(trajectory) - 1) <= 10
    /\ points[4].stage_idx = NStages - 1

\* the run has returned before its time limit
EndedEarly == pc = "done" /\ LastSample.time < config.max_time

\* C29: a run ends before the time limit only if some recorded sample had an
\* altitude above 1 m; as long as no sample has, the recorded altitude is the
\* integrated one, negative or not, and the run returns only once
\* time >= max_time
C29_ImpactOnlyAfterLaunch ==
    /\ EndedEarly => LaunchedBy(Len(trajectory))
    /\ (pc # "nonfinite" /\ Len(trajectory) > 1 /\ ~LaunchedBy(Len(trajectory)))
         => LastSample.pos[3] = integ.pos[3]
    /\ (pc = "done" /\ ~LaunchedBy(Len(trajectory)))
         => LastSample.time >= config.max_time

\* a run that returned at the time limit, below the ground, without a sample
\* above 1 m
C29_Witness ==
    /\ pc = "done"
    /\ Len(trajectory) > 2
    /\ ~LaunchedBy(Len(trajectory))
    /\ LastSample.pos[3] < 0
    /\ trajectory[Len(trajectory) - 1].pos[3] < 0

\* the stage active at sample k is not the last, has no thrust and carries
\* more than 0.01 kg of propellant
DeadStage(k) ==
    /\ trajectory[k].stage_idx + 1 < NStages
    /\ active_stage(mission, trajectory[k].stage_idx).thrust <= 0
    /\ active_stage(mission, trajectory[k].stage_idx).propellant_mass > 10

\* C30: once a stage without thrust that carries more than 0.01 kg of
\* propellant and is not the last is active, it stays active: the mass and
\* the stage index of every later sample are those of that sample
C30_DeadStagePermanent ==
    \A k \in 1..Len(trajectory) :
        DeadStage(k) =>
            \A j \in k..Len(trajectory) :
                /\ trajectory[j].stage_idx = trajectory[k].stage_idx
                /\ trajectory[j].mass = trajectory[k].mass

=============================================================================
